---- MODULE Spec2Model ----
(***************************************************************************)
(* Model of compute_standings (src/pickleball_streamlit_app.py, lines      *)
(* 5-28) and of the two fixtures of its CLI test runner (lines 105-124).   *)
(*                                                                         *)
(* One call of compute_standings(matches_df, teams_list) is a run of the   *)
(* state machine: Initialize builds the accumulator dict (line 11), Tally  *)
(* is one iteration of the loop over matches_df.iterrows() (lines 13-22),  *)
(* Build is lines 24-28 (DataFrame.from_dict, the PD column, sort_values,  *)
(* reset_index, rename, return).  A Python exception ends the call in      *)
(* pc = "raised" with the exception's class in err and no table in df.     *)
(***************************************************************************)
EXTENDS Integers, Sequences, FiniteSets

VARIABLES teams_list, matches, pc, i, data, df, err

vars == <<teams_list, matches, pc, i, data, df, err>>

-----------------------------------------------------------------------------
(* Bounds of the bounded inputs *)

MaxMatches == 2

MaxScore == 1

(* Team names of the bounded inputs *)
TeamNames == {"A", "B", "C"}

(* df before the function has returned anything *)
NoTable == <<"no table">>

-----------------------------------------------------------------------------
(* Helpers *)

Range(s) == {s[k] : k \in 1..Len(s)}

SeqsUpTo(S, n) == UNION {[1..k -> S] : k \in 0..n}

(* row of matches_df: the columns compute_standings reads *)
Match(a, b, sa, sb) == [team_a |-> a, team_b |-> b, score_a |-> sa, score_b |-> sb]

(* the orderings of 1..n, and a sequence reordered by one of them *)
IndexPerms(n) == {q \in [1..n -> 1..n] : \A x, y \in 1..n : q[x] = q[y] => x = y}

Permuted(s, q) == [k \in 1..Len(s) |-> s[q[k]]]

Perms(s) == {Permuted(s, q) : q \in IndexPerms(Len(s))}

-----------------------------------------------------------------------------
(* Line 11: one zeroed accumulator per key of the dict comprehension *)

ZeroRow == [Pld |-> 0, W |-> 0, L |-> 0, PF |-> 0, PA |-> 0, Pts |-> 0]

InitData(tl) == [t \in Range(tl) |-> ZeroRow]

(* insertion order of the dict's keys: first occurrence in teams_list *)
RECURSIVE DictKeys(_)
DictKeys(tl) ==
  IF tl = <<>> THEN <<>>
  ELSE LET front == DictKeys(SubSeq(tl, 1, Len(tl) - 1))
           last == tl[Len(tl)]
       IN IF last \in Range(front) THEN front ELSE Append(front, last)

-----------------------------------------------------------------------------
(* Lines 14-22: the tally of one row, statement by statement *)

(* data[t][f] += n *)
Add(d, t, f, n) == [d EXCEPT ![t][f] = @ + n]

(* line 16 *)
TallyPld(d, m) == Add(Add(d, m.team_a, "Pld", 1), m.team_b, "Pld", 1)

(* a bug: the scores overwrite PF and PA instead of adding to them *)
TallyScoresAssign(d, m) ==
  LET a == m.team_a
      b == m.team_b
      d1 == [d EXCEPT ![a].PF = m.score_a]
      d2 == [d1 EXCEPT ![a].PA = m.score_b]
      d3 == [d2 EXCEPT ![b].PF = m.score_b]
  IN [d3 EXCEPT ![b].PA = m.score_a]

(* lines 17-18 *)
TallyScores(d, m) ==
  Add(Add(Add(Add(d, m.team_a, "PF", m.score_a),
                     m.team_a, "PA", m.score_b),
                     m.team_b, "PF", m.score_b),
                     m.team_b, "PA", m.score_a)

(* W, L and Pts of a match won by w against l *)
Credit(d, w, l) == Add(Add(Add(d, w, "W", 1), l, "L", 1), w, "Pts", 2)

(* a bug: a drawn score credits nobody *)
TallyWinnerNoDraw(d, m) ==
  IF m.score_a > m.score_b THEN Credit(d, m.team_a, m.team_b)
  ELSE IF m.score_b > m.score_a THEN Credit(d, m.team_b, m.team_a)
  ELSE d

(* a bug: >= instead of >, a drawn score goes to team_a *)
TallyWinnerGeq(d, m) ==
  IF m.score_a >= m.score_b THEN Credit(d, m.team_a, m.team_b)
  ELSE Credit(d, m.team_b, m.team_a)

(* lines 19-22 *)
TallyWinner(d, m) ==
  IF m.score_a > m.score_b THEN Credit(d, m.team_a, m.team_b)
  ELSE Credit(d, m.team_b, m.team_a)

(* lines 16-22 for a row whose two teams are keys of data *)
TallyRow(d, m) == TallyWinner(TallyScores(TallyPld(d, m), m), m)

-----------------------------------------------------------------------------
(* Lines 24-28: the table *)

(* lines 24-25, 27: one row per dict key, in insertion order, with PD *)
Row(d, t) ==
  LET r == d[t]
  IN [team |-> t, Pld |-> r.Pld, W |-> r.W, L |-> r.L,
      PF |-> r.PF, PA |-> r.PA, Pts |-> r.Pts, PD |-> r.PF - r.PA]

(* a bug: teams that played no match get no row *)
FramePlayedOnly(d, keys) ==
  LET Played(t) == d[t].Pld > 0
      played == SelectSeq(keys, Played)
  IN [k \in 1..Len(played) |-> Row(d, played[k])]

Frame(d, keys) == [k \in 1..Len(keys) |-> Row(d, keys[k])]

(* a bug: the sort is by Pts alone *)
SortsBeforePtsOnly(r, s) == r.Pts > s.Pts

(* a bug: ascending instead of descending *)
SortsBeforeAscending(r, s) == r.Pts < s.Pts \/ (r.Pts = s.Pts /\ r.PD < s.PD)

(* line 26: r is strictly ahead of s under ['Pts','PD'], ascending=False *)
SortsBefore(r, s) == r.Pts > s.Pts \/ (r.Pts = s.Pts /\ r.PD > s.PD)

(* r goes after every row it is not strictly ahead of: rows equal on both
   keys keep their order (sort_values on several columns is a lexsort) *)
RECURSIVE Insert(_, _)
Insert(sorted, r) ==
  IF sorted = <<>> THEN <<r>>
  ELSE IF SortsBefore(r, Head(sorted)) THEN <<r>> \o sorted
  ELSE <<Head(sorted)>> \o Insert(Tail(sorted), r)

RECURSIVE SortValues(_)
SortValues(rows) ==
  IF rows = <<>> THEN <<>>
  ELSE Insert(SortValues(SubSeq(rows, 1, Len(rows) - 1)), rows[Len(rows)])

-----------------------------------------------------------------------------
(* The inputs *)

(* the repository's own fixtures, lines 106-111 and 116-121 *)
BasicMatches ==
  <<Match("X", "Y", 11, 5), Match("Y", "Z", 7, 11), Match("Z", "X", 3, 11)>>

BasicTeams == <<"X", "Y", "Z">>

TiebreakMatches ==
  <<Match("A", "B", 11, 5), Match("B", "C", 11, 3), Match("C", "A", 11, 9)>>

TiebreakTeams == <<"A", "B", "C">>

(* a match the data model allows: two distinct teams of the team set,
   non-negative scores *)
ValidMatch(m, tl) ==
  /\ m.team_a \in Range(tl)
  /\ m.team_b \in Range(tl)
  /\ m.team_a # m.team_b
  /\ m.score_a >= 0
  /\ m.score_b >= 0

TeamLists == {<<>>, <<"A", "B">>, <<"B", "A", "B">>, <<"B", "C", "A">>}

BoundedMatches ==
  {Match(a, b, sa, sb) : a \in TeamNames, b \in TeamNames,
                         sa \in 0..MaxScore, sb \in 0..MaxScore}

(* what the caller may pass without any check: unknown teams, self-play,
   negative scores *)
AnyTeamLists == {<<>>, <<"A">>, <<"A", "B">>}

AnyMatches ==
  {Match(a, b, sa, sb) : a \in {"A", "B"}, b \in {"A", "B"},
                         sa \in -1..MaxScore, sb \in -1..MaxScore}

Entry ==
  /\ pc = "init"
  /\ i = 1
  /\ data = <<>>
  /\ df = NoTable
  /\ err = "none"

(* a team list and up to MaxMatches valid matches among its teams *)
InitBounded ==
  /\ teams_list \in TeamLists
  /\ matches \in SeqsUpTo({m \in BoundedMatches : ValidMatch(m, teams_list)}, MaxMatches)
  /\ Entry

InitTests ==
  /\ \/ teams_list \in Perms(BasicTeams) /\ matches \in Perms(BasicMatches)
     \/ teams_list \in Perms(TiebreakTeams) /\ matches \in Perms(TiebreakMatches)
  /\ Entry

InitAny ==
  /\ teams_list \in AnyTeamLists
  /\ matches \in SeqsUpTo(AnyMatches, MaxMatches)
  /\ Entry

Init == InitBounded \/ InitTests

-----------------------------------------------------------------------------
(* The call *)

(* line 11 *)
Initialize ==
  /\ pc = "init"
  /\ data' = InitData(teams_list)
  /\ pc' = "tally"
  /\ UNCHANGED <<teams_list, matches, i, df, err>>

(* lines 13-22, one row.  data[a] and then data[b] are looked up unchecked
   on line 16: a missing key raises KeyError, after data[a]['Pld'] was
   incremented when it is b that is missing. *)
Tally ==
  /\ pc = "tally"
  /\ i <= Len(matches)
  /\ LET m == matches[i] IN
       IF m.team_a \notin DOMAIN data
       THEN /\ pc' = "raised"
            /\ err' = "KeyError"
            /\ UNCHANGED <<data, i>>
       ELSE IF m.team_b \notin DOMAIN data
       THEN /\ pc' = "raised"
            /\ err' = "KeyError"
            /\ data' = Add(data, m.team_a, "Pld", 1)
            /\ UNCHANGED i
       ELSE /\ data' = TallyRow(data, m)
            /\ i' = i + 1
            /\ UNCHANGED <<pc, err>>
  /\ UNCHANGED <<teams_list, matches, df>>

(* lines 24-28.  from_dict of an empty dict is a frame without columns, so
   df['PF'] on line 25 raises KeyError. *)
Build ==
  /\ pc = "tally"
  /\ i > Len(matches)
  /\ IF DOMAIN data = {}
     THEN /\ pc' = "raised"
          /\ err' = "KeyError"
          /\ UNCHANGED df
     ELSE /\ df' = SortValues(Frame(data, DictKeys(teams_list)))
          /\ pc' = "done"
          /\ UNCHANGED err
  /\ UNCHANGED <<teams_list, matches, i, data>>

Next == Initialize \/ Tally \/ Build

(* valid bounded inputs and the two fixtures *)
Spec == Init /\ [][Next]_vars

(* unchecked inputs *)
SpecAny == InitAny /\ [][Next]_vars

-----------------------------------------------------------------------------
(* The function as a whole, for a call that raises nothing: lines 11-22
   as a fold over the rows, then lines 24-28 *)

RECURSIVE TallyAll(_, _)
TallyAll(d, ms) ==
  IF ms = <<>> THEN d
  ELSE TallyRow(TallyAll(d, SubSeq(ms, 1, Len(ms) - 1)), ms[Len(ms)])

compute_standings(ms, tl) ==
  SortValues(Frame(TallyAll(InitData(tl), ms), DictKeys(tl)))

-----------------------------------------------------------------------------
(* Vocabulary of the properties *)

Returned == pc = "done"

Raised == pc = "raised"

Ended == Returned \/ Raised

(* rows 1..i-1 of matches have been tallied *)
Tallying == pc \in {"tally", "done"}

Unknown(m) == m.team_a \notin Range(teams_list) \/ m.team_b \notin Range(teams_list)

Negative(m) == m.score_a < 0 \/ m.score_b < 0

SelfPlay(m) == m.team_a = m.team_b

Drawn(m) == m.score_a = m.score_b

Plays(t, m) == m.team_a = t \/ m.team_b = t

RECURSIVE SumW(_, _)
SumW(d, S) ==
  IF S = {} THEN 0
  ELSE LET t == CHOOSE x \in S : TRUE IN d[t].W + SumW(d, S \ {t})

RowOf(t) == df[CHOOSE k \in 1..Len(df) : df[k].team = t]

TeamColumn == [k \in 1..Len(df) |-> df[k].team]

(* the teams and the matches of a fixture, in any order *)
IsFixture(teams, ms) ==
  /\ Len(teams_list) = Len(teams)
  /\ Range(teams_list) = Range(teams)
  /\ Len(matches) = Len(ms)
  /\ Range(matches) = Range(ms)

IsBasicFixture == IsFixture(BasicTeams, BasicMatches)

IsTiebreakFixture == IsFixture(TiebreakTeams, TiebreakMatches)

-----------------------------------------------------------------------------
(* C1: whenever some match names a team that is not in the team set, the
   call ends by raising ReferenceError and returns no table.  Stated for
   the sequences with no other defect, where no other error is due.  The
   code raises KeyError from the unchecked lookup on line 16. *)
C1_UnknownTeamRejected ==
  (/\ \E k \in 1..Len(matches) : Unknown(matches[k])
   /\ \A k \in 1..Len(matches) : ~Negative(matches[k]) /\ ~SelfPlay(matches[k])
   /\ Ended)
    => (Raised /\ err = "ReferenceError" /\ df = NoTable)

(* C2: a match with a negative score is never tallied: the call raises
   ValidationError and returns no table.  Stated for the sequences with no
   other defect.  The code tallies the match and returns a table. *)
C2_NegativeScoreRejected ==
  (\A n \in 1..Len(matches) : ~Unknown(matches[n]) /\ ~SelfPlay(matches[n]))
    => \A k \in 1..Len(matches) :
         Negative(matches[k])
           => /\ i <= k
              /\ ~Returned
              /\ (Ended => (err = "ValidationError" /\ df = NoTable))

(* C3: a match of a team against itself is never tallied: the call raises
   ValidationError, and no team gets played, wins and losses from a match
   against itself.  Stated for the sequences with no other defect.  The
   code tallies the match and returns a table. *)
C3_SelfPlayRejected ==
  (\A n \in 1..Len(matches) : ~Unknown(matches[n]) /\ ~Negative(matches[n]))
    => \A k \in 1..Len(matches) :
         SelfPlay(matches[k])
           => /\ i <= k
              /\ ~Returned
              /\ (Ended => (err = "ValidationError" /\ df = NoTable))

(* C4: for a fixed team list, the returned table has the rows of the
   table of every reordering of the match sequence: the same rows (team,
   Pld, W, L, PF, PA, Pts, PD), each once, so no team's tallies depend on
   the order in which the matches are processed. *)
C4_Commutative ==
  Returned =>
    \A q \in IndexPerms(Len(matches)) :
      LET table == compute_standings(Permuted(matches, q), teams_list)
      IN Len(df) = Len(table) /\ Range(df) = Range(table)

C4_Witness ==
  /\ Returned
  /\ Len(matches) >= 2
  /\ matches[1].team_a # matches[2].team_a
  /\ matches[1].score_a # matches[2].score_a
  /\ \E p \in Perms(matches) :
       p # matches /\ Range(df) = Range(compute_standings(p, teams_list))

(* C5: after every prefix of a valid match sequence, and in the returned
   table, every team has W + L = Pld and the wins of all teams sum to the
   number of matches tallied: a drawn score too has one winner, one loser. *)
C5_Conservation ==
  /\ Tallying
       => /\ \A t \in DOMAIN data : data[t].W + data[t].L = data[t].Pld
          /\ SumW(data, DOMAIN data) = i - 1
  /\ Returned
       => /\ \A k \in 1..Len(df) : df[k].W + df[k].L = df[k].Pld
          /\ SumW([t \in Range(teams_list) |-> RowOf(t)], Range(teams_list))
               = Len(matches)

C5_Witness ==
  /\ Returned
  /\ Len(matches) >= 2
  /\ Drawn(matches[1])
  /\ ~Drawn(matches[2])
  /\ RowOf(matches[1].team_b).W >= 1

(* C6: in the returned table every row has PD = PF - PA, and of two
   adjacent rows the earlier has more Pts, or the same Pts and a PD at
   least as large. *)
C6_Sorted ==
  Returned =>
    /\ \A k \in 1..Len(df) : df[k].PD = df[k].PF - df[k].PA
    /\ \A k \in 1..(Len(df) - 1) :
         \/ df[k].Pts > df[k + 1].Pts
         \/ (df[k].Pts = df[k + 1].Pts /\ df[k].PD >= df[k + 1].PD)

(* two teams level on Pts that the sort had to swap: the later key of the
   dict is the earlier row *)
C6_Witness ==
  /\ Returned
  /\ \E k \in 1..(Len(df) - 1) :
       /\ df[k].Pts = df[k + 1].Pts
       /\ df[k].PD > df[k + 1].PD
       /\ \E x, y \in 1..Len(teams_list) :
            x < y /\ teams_list[x] = df[k + 1].team /\ teams_list[y] = df[k].team

(* C7, one row: score_a > score_b gives team_a a win and 2 points and
   team_b a loss; anything else, a drawn score included, gives team_b the
   win and the 2 points and team_a the loss. *)
C7_RowCredited ==
  (pc = "tally" /\ i' = i + 1) =>
    LET m == matches[i]
        w == IF m.score_a > m.score_b THEN m.team_a ELSE m.team_b
        l == IF m.score_a > m.score_b THEN m.team_b ELSE m.team_a
    IN /\ data'[w].W = data[w].W + 1
       /\ data'[w].Pts = data[w].Pts + 2
       /\ data'[w].L = data[w].L
       /\ data'[l].L = data[l].L + 1
       /\ data'[l].W = data[l].W
       /\ data'[l].Pts = data[l].Pts

(* C7, the table: Pts = 2 * W in every row, and the fixture X-Y 11-5,
   Y-Z 7-11, Z-X 3-11 gives X 4 points, Y 0 and Z 2. *)
C7_Table ==
  Returned =>
    /\ \A k \in 1..Len(df) : df[k].Pts = 2 * df[k].W
    /\ IsBasicFixture
         => RowOf("X").Pts = 4 /\ RowOf("Y").Pts = 0 /\ RowOf("Z").Pts = 2

(* C7: every row tallied credits its winner and loser as above, so a drawn
   score is a win of team_b, every returned table has Pts = 2 * W, and the
   basic fixture yields X = 4, Y = 0, Z = 2. *)
C7_WinnerRule == [][C7_RowCredited]_vars /\ []C7_Table

(* a drawn first row has been tallied as a win of team_b *)
C7_Witness ==
  /\ pc = "tally"
  /\ i = 2
  /\ Drawn(matches[1])
  /\ data[matches[1].team_b].W = 1
  /\ data[matches[1].team_b].Pts = 2
  /\ data[matches[1].team_a].L = 1

(* C8 as stated: the cycle A-B 11-5, B-C 11-3, C-A 11-9 over the teams
   A, B, C gives every team one win and 2 points, differentials +6, +2 and
   -6, and the table lists A, B, C in that order.  A concedes 5 + 11 = 16,
   not 14: its differential is 20 - 16 = +4. *)
C8_AsStated ==
  (Returned /\ IsTiebreakFixture) =>
    /\ \A k \in 1..Len(df) : df[k].W = 1 /\ df[k].Pts = 2
    /\ RowOf("A").PD = 6
    /\ RowOf("B").PD = 2
    /\ RowOf("C").PD = -6
    /\ TeamColumn = <<"A", "B", "C">>

(* C8, amended: the cycle A-B 11-5, B-C 11-3, C-A 11-9 over the teams A,
   B, C, in any order of the matches and of the team list, gives every
   team one win and 2 points, differentials +4, +2 and -6, and the table
   lists A, B, C in that order. *)
C8_TiebreakOrder ==
  (Returned /\ IsTiebreakFixture) =>
    /\ \A k \in 1..Len(df) : df[k].W = 1 /\ df[k].Pts = 2
    /\ RowOf("A").PD = 4
    /\ RowOf("B").PD = 2
    /\ RowOf("C").PD = -6
    /\ TeamColumn = <<"A", "B", "C">>

C8_Witness ==
  /\ Returned
  /\ matches = TiebreakMatches
  /\ teams_list = <<"C", "B", "A">>
  /\ TeamColumn = <<"A", "B", "C">>

(* C9: the returned table has exactly one row per team of the team set; a
   team named by no match has Pld, W, L, PF, PA, PD and Pts all 0 and its
   row is below the row of every team with positive Pts. *)
C9_OneRowPerTeam ==
  Returned =>
    /\ Len(df) = Cardinality(Range(teams_list))
    /\ Range(TeamColumn) = Range(teams_list)
    /\ \A k \in 1..Len(df) :
         (\A n \in 1..Len(matches) : ~Plays(df[k].team, matches[n]))
           => /\ df[k].Pld = 0 /\ df[k].W = 0 /\ df[k].L = 0
              /\ df[k].PF = 0 /\ df[k].PA = 0 /\ df[k].PD = 0
              /\ df[k].Pts = 0
              /\ \A j \in 1..Len(df) : df[j].Pts > 0 => j < k

(* the idle team is the first key of the dict and the last row *)
C9_Witness ==
  /\ Returned
  /\ Len(df) = 3
  /\ Len(matches) >= 1
  /\ \A n \in 1..Len(matches) : ~Plays(teams_list[1], matches[n])
  /\ df[3].team = teams_list[1]
  /\ df[1].Pts > 0

(* C10: with an empty team set and an empty match sequence the call does
   not raise and returns a table of zero rows.  The code raises KeyError
   on line 25. *)
C10_EmptyTable ==
  (teams_list = <<>> /\ matches = <<>>)
    => (~Raised /\ (Ended => df = <<>>))

====
